---- MODULE Spec2Model ----
(***************************************************************************)
(* Model of the Zotero MCP Bridge plugin (zotero-plugin/addon/content/     *)
(* zotero-mcp.js): the RPC endpoint registered on Zotero's built-in HTTP   *)
(* server, its seven commands, and the part of the host library (items,    *)
(* collections, collection membership) the commands read and write.        *)
(*                                                                         *)
(* JavaScript values are tagged records [t, v]; strings are sequences of   *)
(* symbols (characters for titles and queries, opaque tokens for keys and  *)
(* names), so that emptiness, whitespace and containment are computed.     *)
(* Requests address the user library only (no libraryID parameter).        *)
(***************************************************************************)
EXTENDS Integers, Sequences, FiniteSets, TLC

VARIABLES
    endpoints,    \* this.endpoints: the paths registered with the host server
    items,        \* the library's items, indexed by itemID
    collections,  \* the library's collections, indexed by collectionID
    members,      \* members[c]: the itemIDs that are child items of collection c
    pc,           \* "idle" | "responded": position of the (serial) host server
    lastReq,      \* the request being answered
    resp,         \* the response the endpoint returned for lastReq
    searched,     \* whether Zotero.Search.search() was invoked for lastReq
    extra,            \* extra[k]: the lines of the "extra" field of item k
    secondaryStore,   \* the optional secondary store of manager-assigned keys
    citationKeyCache, \* item key -> resolved citation key or Absent
    resolved          \* the outcome of the last citation-key resolution

pluginVars == <<endpoints, items, collections, members, pc, lastReq, resp, searched>>
resolverVars == <<extra, secondaryStore, citationKeyCache, resolved>>
vars == <<pluginVars, resolverVars>>

\* Bounds of the model
MaxItems == 2
MaxCollections == 2
MaxKeys == 2

\* searchItems({ query, limit = 50, libraryID })
DefaultLimit == 50

RpcPath == "/zotero-mcp/rpc"
HealthPath == "/zotero-mcp/health"

-----------------------------------------------------------------------------
(* JavaScript values *)

Undefined == [t |-> "undefined", v |-> 0]
Null == [t |-> "null", v |-> 0]
Str(s) == [t |-> "string", v |-> s]
Num(n) == [t |-> "number", v |-> n]
Arr(a) == [t |-> "array", v |-> a]
Obj(r) == [t |-> "object", v |-> r]
EmptyObject == Obj(<<>>)

\* ToBoolean, as used by `!x` and `x || y`
Truthy(x) ==
    CASE x.t = "string" -> x.v # <<>>
      [] x.t = "number" -> x.v # 0
      [] x.t \in {"array", "object"} -> TRUE
      [] OTHER -> FALSE

\* Property read o.name; a property of a primitive is undefined
Field(o, name) ==
    IF o.t = "object" /\ name \in DOMAIN o.v THEN o.v[name] ELSE Undefined

\* Destructuring `{a, b} = x` throws a TypeError on null and undefined
Destructurable(x) == x.t \notin {"null", "undefined"}

\* Array.prototype.slice(0, end) on an array of length Len(a)
Slice(a, end) ==
    LET n == Len(a)
        e == CASE end.t = "undefined" -> n
               [] end.t = "number" ->
                    IF end.v < 0 THEN (IF n + end.v > 0 THEN n + end.v ELSE 0)
                    ELSE (IF end.v < n THEN end.v ELSE n)
               [] OTHER -> 0
    IN  SubSeq(a, 1, e)

-----------------------------------------------------------------------------
(* Errors and responses *)

\* rpcError(code, message, status): an Error carrying code and status
rpcError(code, message, status) ==
    [code |-> code, message |-> message, status |-> status]

\* An Error thrown by the language or the host: no code, no status
\* (absent properties are "" and 0, falsy like undefined under `||`)
HostError(message) == [code |-> "", message |-> message, status |-> 0]

CorsHeaders ==
    [origin |-> "*", methods |-> "GET, POST, OPTIONS", headers |-> "Content-Type"]

\* JSON.stringify of a result object: properties whose value is undefined
\* are left out (only `errors` is ever set to undefined)
Stringify(data) ==
    LET dropped == {f \in DOMAIN data \cap {"errors"} : data[f].t = "undefined"}
    IN  [f \in DOMAIN data \ dropped |-> data[f]]

jsonResponse(status, data) ==
    [status |-> status, contentType |-> "application/json",
     body |-> Stringify(data), headers |-> CorsHeaders]

corsResponse(status, body) ==
    [status |-> status, contentType |-> "text/plain",
     body |-> body, headers |-> CorsHeaders]

\* Outcome of running a command: what it returned or threw, the library it
\* leaves behind, and whether it ran a search
Return(value, colls, mem, ran) ==
    [thrown |-> FALSE, value |-> value, items |-> items,
     collections |-> colls, members |-> mem, searched |-> ran]

Throw(error, ran) ==
    [thrown |-> TRUE, value |-> error, items |-> items,
     collections |-> collections, members |-> members, searched |-> ran]

-----------------------------------------------------------------------------
(* The host library *)

ItemTypes == {"journalArticle", "note", "attachment"}

isNote(item) == item.itemType = "note"
isAttachment(item) == item.itemType = "attachment"
isRegularItem(item) == ~isNote(item) /\ ~isAttachment(item)

ItemIDs == 1 .. Len(items)
CollectionIDs == 1 .. Len(collections)

\* Zotero.Items.getByLibraryAndKeyAsync(libID, key): the itemID, 0 if none
ItemByKey(key) ==
    IF key.t = "string" /\ \E i \in ItemIDs : <<items[i].key>> = key.v
    THEN CHOOSE i \in ItemIDs : <<items[i].key>> = key.v
    ELSE 0

\* Zotero.Collections.getByLibraryAndKeyAsync(libID, key): the id, 0 if none
CollectionByKey(key) ==
    IF key.t = "string" /\ \E c \in CollectionIDs : <<collections[c].key>> = key.v
    THEN CHOOSE c \in CollectionIDs : <<collections[c].key>> = key.v
    ELSE 0

\* A set of ids as the ascending array of ids
RECURSIVE AscendingSeq(_)
AscendingSeq(S) ==
    IF S = {} THEN <<>>
    ELSE LET m == CHOOSE x \in S : \A y \in S : x <= y
         IN  <<m>> \o AscendingSeq(S \ {m})

\* collection.parentKey || null
ParentKeyOf(c) ==
    IF collections[c].parentID = 0 THEN Null
    ELSE Str(<<collections[collections[c].parentID].key>>)

-----------------------------------------------------------------------------
(* Quick search of the host: every word of the query text is contained in   *)
(* the item's searchable text; the ids come back in ascending order          *)

Words(text) ==
    {SubSeq(text, p[1], p[2]) :
        p \in {q \in (1 .. Len(text)) \X (1 .. Len(text)) :
                 /\ q[1] <= q[2]
                 /\ \A k \in q[1] .. q[2] : text[k] # " "
                 /\ (q[1] = 1 \/ text[q[1] - 1] = " ")
                 /\ (q[2] = Len(text) \/ text[q[2] + 1] = " ")}}

Contains(text, w) ==
    \E i \in 1 .. (Len(text) - Len(w) + 1) : SubSeq(text, i, i + Len(w) - 1) = w

QuickSearchMatches(item, text) == \A w \in Words(text) : Contains(item.title, w)

QuickSearch(text) ==
    AscendingSeq({i \in ItemIDs : QuickSearchMatches(items[i], text)})

-----------------------------------------------------------------------------
(* Serialization helpers *)

\* item.getCollections() mapped to collection keys
CollectionKeysOf(i) ==
    LET cs == AscendingSeq({c \in CollectionIDs : i \in members[c]})
    IN  [k \in 1 .. Len(cs) |-> collections[cs[k]].key]

serializeItem(i) ==
    [key |-> items[i].key, itemType |-> items[i].itemType,
     title |-> items[i].title, collections |-> CollectionKeysOf(i),
     dateAdded |-> items[i].dateAdded]

serializeItemBrief(i) ==
    [key |-> items[i].key, title |-> items[i].title,
     itemType |-> items[i].itemType]

-----------------------------------------------------------------------------
(* Commands.  params is the JavaScript value passed as the command's        *)
(* argument; hostErr is the set of positions of the command's host calls    *)
(* (saveTx, search, addItem, removeItem, lookups) at which the host throws. *)

TypeErrorOnParams == HostError(<<"TypeError: cannot destructure">>)
HostFailure == HostError(<<"host operation failed">>)

\* createCollection, but saving the collection before looking up its parent
createCollection_savefirst(params, hostErr) ==
    IF ~Destructurable(params) THEN Throw(TypeErrorOnParams, FALSE)
    ELSE
    LET name == Field(params, "name")
        parentKey == Field(params, "parentKey")
        parent == CollectionByKey(parentKey)
        newKey == "C" \o ToString(Len(collections) + 1)
        collection == [key |-> newKey, name |-> name.v,
                       parentID |-> IF Truthy(parentKey) THEN parent ELSE 0]
    IN  IF ~Truthy(name) \/ name.t # "string"
        THEN Throw(rpcError("INVALID_PARAMS", <<"Collection name is required">>, 400), FALSE)
        ELSE IF hostErr # {}
        THEN Throw(HostFailure, FALSE)
        ELSE IF Truthy(parentKey) /\ parent = 0
        THEN [Throw(rpcError("NOT_FOUND", <<"Parent collection not found: ", parentKey>>, 404), FALSE)
                EXCEPT !.collections = Append(collections, collection),
                       !.members = Append(members, {})]
        ELSE Return([key |-> newKey, name |-> name.v,
                     parentKey |-> IF Truthy(parentKey) THEN parentKey ELSE Null],
                    Append(collections, collection), Append(members, {}), FALSE)

\* createCollection, but never setting the new collection's parentID
createCollection_noparent(params, hostErr) ==
    IF ~Destructurable(params) THEN Throw(TypeErrorOnParams, FALSE)
    ELSE
    LET name == Field(params, "name")
        parentKey == Field(params, "parentKey")
        parent == CollectionByKey(parentKey)
        newKey == "C" \o ToString(Len(collections) + 1)
        collection == [key |-> newKey, name |-> name.v, parentID |-> 0]
    IN  IF ~Truthy(name) \/ name.t # "string"
        THEN Throw(rpcError("INVALID_PARAMS", <<"Collection name is required">>, 400), FALSE)
        ELSE IF Truthy(parentKey) /\ parent = 0
        THEN Throw(rpcError("NOT_FOUND", <<"Parent collection not found: ", parentKey>>, 404), FALSE)
        ELSE IF hostErr # {}
        THEN Throw(HostFailure, FALSE)
        ELSE Return([key |-> newKey, name |-> name.v,
                     parentKey |-> IF Truthy(parentKey) THEN parentKey ELSE Null],
                    Append(collections, collection), Append(members, {}), FALSE)

createCollection(params, hostErr) ==
    IF ~Destructurable(params) THEN Throw(TypeErrorOnParams, FALSE)
    ELSE
    LET name == Field(params, "name")
        parentKey == Field(params, "parentKey")
        parent == CollectionByKey(parentKey)
        newKey == "C" \o ToString(Len(collections) + 1)
        collection == [key |-> newKey, name |-> name.v,
                       parentID |-> IF Truthy(parentKey) THEN parent ELSE 0]
    IN  IF ~Truthy(name) \/ name.t # "string"
        THEN Throw(rpcError("INVALID_PARAMS", <<"Collection name is required">>, 400), FALSE)
        ELSE IF Truthy(parentKey) /\ parent = 0
        THEN Throw(rpcError("NOT_FOUND", <<"Parent collection not found: ", parentKey>>, 404), FALSE)
        ELSE IF hostErr # {}
        THEN Throw(HostFailure, FALSE)
        ELSE Return([key |-> newKey, name |-> name.v,
                     parentKey |-> IF Truthy(parentKey) THEN parentKey ELSE Null],
                    Append(collections, collection), Append(members, {}), FALSE)

\* getCollection, but reading the child items takes them out of the collection
getCollection_consuming(params, hostErr) ==
    IF ~Destructurable(params) THEN Throw(TypeErrorOnParams, FALSE)
    ELSE
    LET key == Field(params, "key")
        c == CollectionByKey(key)
        itemIDs == AscendingSeq(members[c])
    IN  IF ~Truthy(key)
        THEN Throw(rpcError("INVALID_PARAMS", <<"Collection key is required">>, 400), FALSE)
        ELSE IF hostErr # {}
        THEN Throw(HostFailure, FALSE)
        ELSE IF c = 0
        THEN Throw(rpcError("NOT_FOUND", <<"Collection not found: ", key>>, 404), FALSE)
        ELSE Return([key |-> collections[c].key, name |-> collections[c].name,
                     parentKey |-> ParentKeyOf(c), itemCount |-> Len(itemIDs),
                     items |-> [k \in 1 .. Len(itemIDs) |-> serializeItemBrief(itemIDs[k])]],
                    collections, [members EXCEPT ![c] = {}], FALSE)

getCollection(params, hostErr) ==
    IF ~Destructurable(params) THEN Throw(TypeErrorOnParams, FALSE)
    ELSE
    LET key == Field(params, "key")
        c == CollectionByKey(key)
        itemIDs == AscendingSeq(members[c])
    IN  IF ~Truthy(key)
        THEN Throw(rpcError("INVALID_PARAMS", <<"Collection key is required">>, 400), FALSE)
        ELSE IF hostErr # {}
        THEN Throw(HostFailure, FALSE)
        ELSE IF c = 0
        THEN Throw(rpcError("NOT_FOUND", <<"Collection not found: ", key>>, 404), FALSE)
        ELSE Return([key |-> collections[c].key, name |-> collections[c].name,
                     parentKey |-> ParentKeyOf(c), itemCount |-> Len(itemIDs),
                     items |-> [k \in 1 .. Len(itemIDs) |-> serializeItemBrief(itemIDs[k])]],
                    collections, members, FALSE)

\* The state of addToCollection's loop after the first k item keys
\* The loop of addToCollection, but giving up at the first key it cannot add
RECURSIVE AddLoop_stopping(_, _, _, _)
AddLoop_stopping(c, itemKeys, hostErr, k) ==
    IF k = 0 THEN [members |-> members, added |-> <<>>, errors |-> <<>>]
    ELSE
    LET acc == AddLoop_stopping(c, itemKeys, hostErr, k - 1)
        itemKey == itemKeys[k]
        item == ItemByKey(itemKey)
    IN  IF acc.errors # <<>>
        THEN acc
        ELSE IF item = 0
        THEN [acc EXCEPT !.errors = Append(@, [key |-> itemKey, error |-> "Item not found"])]
        ELSE IF isNote(items[item]) \/ isAttachment(items[item])
        THEN [acc EXCEPT !.errors = Append(@, [key |-> itemKey, error |-> "Cannot add notes or attachments directly"])]
        ELSE IF k \in hostErr
        THEN [acc EXCEPT !.errors = Append(@, [key |-> itemKey, error |-> "host operation failed"])]
        ELSE [acc EXCEPT !.members[c] = @ \cup {item}, !.added = Append(@, itemKey)]

RECURSIVE AddLoop(_, _, _, _)
AddLoop(c, itemKeys, hostErr, k) ==
    IF k = 0 THEN [members |-> members, added |-> <<>>, errors |-> <<>>]
    ELSE
    LET acc == AddLoop(c, itemKeys, hostErr, k - 1)
        itemKey == itemKeys[k]
        item == ItemByKey(itemKey)
    IN  IF item = 0
        THEN [acc EXCEPT !.errors = Append(@, [key |-> itemKey, error |-> "Item not found"])]
        ELSE IF isNote(items[item]) \/ isAttachment(items[item])
        THEN [acc EXCEPT !.errors =
                 Append(@, [key |-> itemKey, error |-> "Cannot add notes or attachments directly"])]
        ELSE IF k \in hostErr
        THEN [acc EXCEPT !.errors = Append(@, [key |-> itemKey, error |-> "host operation failed"])]
        ELSE [acc EXCEPT !.members[c] = @ \cup {item}, !.added = Append(@, itemKey)]

addToCollection(params, hostErr) ==
    IF ~Destructurable(params) THEN Throw(TypeErrorOnParams, FALSE)
    ELSE
    LET collectionKey == Field(params, "collectionKey")
        itemKeys == Field(params, "itemKeys")
        c == CollectionByKey(collectionKey)
        done == AddLoop(c, itemKeys.v, hostErr, Len(itemKeys.v))
    IN  IF ~Truthy(collectionKey)
        THEN Throw(rpcError("INVALID_PARAMS", <<"Collection key is required">>, 400), FALSE)
        ELSE IF itemKeys.t # "array" \/ Len(itemKeys.v) = 0
        THEN Throw(rpcError("INVALID_PARAMS", <<"Item keys array is required">>, 400), FALSE)
        ELSE IF c = 0
        THEN Throw(rpcError("NOT_FOUND", <<"Collection not found: ", collectionKey>>, 404), FALSE)
        ELSE Return([collectionKey |-> collectionKey, added |-> Arr(done.added),
                     errors |-> IF Len(done.errors) > 0 THEN Arr(done.errors) ELSE Undefined],
                    collections, done.members, FALSE)

\* The state of removeFromCollection's loop after the first k item keys
RECURSIVE RemoveLoop(_, _, _, _)
RemoveLoop(c, itemKeys, hostErr, k) ==
    IF k = 0 THEN [members |-> members, removed |-> <<>>, errors |-> <<>>]
    ELSE
    LET acc == RemoveLoop(c, itemKeys, hostErr, k - 1)
        itemKey == itemKeys[k]
        item == ItemByKey(itemKey)
    IN  IF item = 0
        THEN [acc EXCEPT !.errors = Append(@, [key |-> itemKey, error |-> "Item not found"])]
        ELSE IF k \in hostErr
        THEN [acc EXCEPT !.errors = Append(@, [key |-> itemKey, error |-> "host operation failed"])]
        ELSE [acc EXCEPT !.members[c] = @ \ {item}, !.removed = Append(@, itemKey)]

\* removeFromCollection, but erasing the library's last item when it is removed
removeFromCollection_erasing(params, hostErr) ==
    IF ~Destructurable(params) THEN Throw(TypeErrorOnParams, FALSE)
    ELSE
    LET collectionKey == Field(params, "collectionKey")
        itemKeys == Field(params, "itemKeys")
        c == CollectionByKey(collectionKey)
        done == RemoveLoop(c, itemKeys.v, hostErr, Len(itemKeys.v))
        last == Len(items)
        erased == \E k \in 1 .. Len(done.removed) : ItemByKey(done.removed[k]) = last
        out == Return([collectionKey |-> collectionKey, removed |-> Arr(done.removed),
                       errors |-> IF Len(done.errors) > 0 THEN Arr(done.errors) ELSE Undefined],
                      collections, done.members, FALSE)
    IN  IF ~Truthy(collectionKey)
        THEN Throw(rpcError("INVALID_PARAMS", <<"Collection key is required">>, 400), FALSE)
        ELSE IF itemKeys.t # "array" \/ Len(itemKeys.v) = 0
        THEN Throw(rpcError("INVALID_PARAMS", <<"Item keys array is required">>, 400), FALSE)
        ELSE IF c = 0
        THEN Throw(rpcError("NOT_FOUND", <<"Collection not found: ", collectionKey>>, 404), FALSE)
        ELSE IF erased
        THEN [out EXCEPT !.items = SubSeq(items, 1, last - 1),
                         !.members = [d \in CollectionIDs |-> done.members[d] \ {last}]]
        ELSE out

removeFromCollection(params, hostErr) ==
    IF ~Destructurable(params) THEN Throw(TypeErrorOnParams, FALSE)
    ELSE
    LET collectionKey == Field(params, "collectionKey")
        itemKeys == Field(params, "itemKeys")
        c == CollectionByKey(collectionKey)
        done == RemoveLoop(c, itemKeys.v, hostErr, Len(itemKeys.v))
    IN  IF ~Truthy(collectionKey)
        THEN Throw(rpcError("INVALID_PARAMS", <<"Collection key is required">>, 400), FALSE)
        ELSE IF itemKeys.t # "array" \/ Len(itemKeys.v) = 0
        THEN Throw(rpcError("INVALID_PARAMS", <<"Item keys array is required">>, 400), FALSE)
        ELSE IF c = 0
        THEN Throw(rpcError("NOT_FOUND", <<"Collection not found: ", collectionKey>>, 404), FALSE)
        ELSE Return([collectionKey |-> collectionKey, removed |-> Arr(done.removed),
                     errors |-> IF Len(done.errors) > 0 THEN Arr(done.errors) ELSE Undefined],
                    collections, done.members, FALSE)

listCollections(params, hostErr) ==
    IF ~Destructurable(params) THEN Throw(TypeErrorOnParams, FALSE)
    ELSE
    LET parentKey == Field(params, "parentKey")
        parent == CollectionByKey(parentKey)
        all == AscendingSeq(CollectionIDs)
        InParent(c) == collections[c].parentID = parent
        listed == IF Truthy(parentKey) THEN SelectSeq(all, InParent) ELSE all
    IN  IF hostErr # {}
        THEN Throw(HostFailure, FALSE)
        ELSE IF Truthy(parentKey) /\ parent = 0
        THEN Throw(rpcError("NOT_FOUND", <<"Parent collection not found: ", parentKey>>, 404), FALSE)
        ELSE Return([collections |->
                        [k \in 1 .. Len(listed) |->
                            [key |-> collections[listed[k]].key,
                             name |-> collections[listed[k]].name,
                             parentKey |-> ParentKeyOf(listed[k]),
                             itemCount |-> Cardinality(members[listed[k]])]]],
                    collections, members, FALSE)

\* searchItems, but serializing the fetched items instead of the regular ones
searchItems_unfiltered(params, hostErr) ==
    IF ~Destructurable(params) THEN Throw(TypeErrorOnParams, FALSE)
    ELSE
    LET query == Field(params, "query")
        limit == IF Field(params, "limit").t = "undefined"
                 THEN Num(DefaultLimit) ELSE Field(params, "limit")
        itemIDs == QuickSearch(query.v)
        limitedIDs == Slice(itemIDs, limit)
        IsRegular(i) == isRegularItem(items[i])
        regularItems == SelectSeq(limitedIDs, IsRegular)
    IN  IF ~Truthy(query) \/ query.t # "string"
        THEN Throw(rpcError("INVALID_PARAMS", <<"Search query is required">>, 400), FALSE)
        ELSE IF hostErr # {}
        THEN Throw(HostFailure, TRUE)
        ELSE Return([query |-> query.v, total |-> Len(regularItems),
                     items |-> [k \in 1 .. Len(limitedIDs) |-> serializeItem(limitedIDs[k])]],
                    collections, members, TRUE)

searchItems(params, hostErr) ==
    IF ~Destructurable(params) THEN Throw(TypeErrorOnParams, FALSE)
    ELSE
    LET query == Field(params, "query")
        limit == IF Field(params, "limit").t = "undefined"
                 THEN Num(DefaultLimit) ELSE Field(params, "limit")
        itemIDs == QuickSearch(query.v)
        limitedIDs == Slice(itemIDs, limit)
        IsRegular(i) == isRegularItem(items[i])
        regularItems == SelectSeq(limitedIDs, IsRegular)
    IN  IF ~Truthy(query) \/ query.t # "string"
        THEN Throw(rpcError("INVALID_PARAMS", <<"Search query is required">>, 400), FALSE)
        ELSE IF hostErr # {}
        THEN Throw(HostFailure, TRUE)
        ELSE Return([query |-> query.v, total |-> Len(regularItems),
                     items |-> [k \in 1 .. Len(regularItems) |-> serializeItem(regularItems[k])]],
                    collections, members, TRUE)

getItem(params, hostErr) ==
    IF ~Destructurable(params) THEN Throw(TypeErrorOnParams, FALSE)
    ELSE
    LET key == Field(params, "key")
        item == ItemByKey(key)
    IN  IF ~Truthy(key)
        THEN Throw(rpcError("INVALID_PARAMS", <<"Item key is required">>, 400), FALSE)
        ELSE IF hostErr # {}
        THEN Throw(HostFailure, FALSE)
        ELSE IF item = 0
        THEN Throw(rpcError("NOT_FOUND", <<"Item not found: ", key>>, 404), FALSE)
        ELSE Return(serializeItem(item), collections, members, FALSE)

-----------------------------------------------------------------------------
(* The endpoints.  requestData is [method, path, data, hostErr]: the HTTP    *)
(* method, the endpoint's path, the raw body (absent, not JSON, or the JSON  *)
(* value it parses to) and the host failures met while it is served.         *)

NoData == [t |-> "none", v |-> 0]
NotJson == [t |-> "malformed", v |-> 0]
Json(x) == [t |-> "json", v |-> x]

parseRequestBody(requestData) ==
    CASE requestData.data.t = "none" ->
            Throw(rpcError("INVALID_REQUEST", <<"Request body is required">>, 400), FALSE)
      [] requestData.data.t = "malformed" ->
            Throw(rpcError("PARSE_ERROR", <<"Invalid JSON in request body">>, 400), FALSE)
      [] OTHER -> Return(requestData.data.v, collections, members, FALSE)

\* handleRpcRequest, but the error for an unknown method is given no status
handleRpcRequest_nostatus(body, hostErr) ==
    IF ~Destructurable(body) THEN Throw(HostError(<<"TypeError: cannot destructure">>), FALSE)
    ELSE
    LET method == Field(body, "method")
        params == IF Field(body, "params").t = "undefined"
                  THEN EmptyObject ELSE Field(body, "params")
        Is(name) == method.t = "string" /\ method.v = <<name>>
    IN  IF ~Truthy(method)
        THEN Throw(rpcError("INVALID_REQUEST", <<"Method is required">>, 400), FALSE)
        ELSE CASE Is("createCollection") -> createCollection(params, hostErr)
               [] Is("getCollection") -> getCollection(params, hostErr)
               [] Is("addToCollection") -> addToCollection(params, hostErr)
               [] Is("removeFromCollection") -> removeFromCollection(params, hostErr)
               [] Is("searchItems") -> searchItems(params, hostErr)
               [] Is("getItem") -> getItem(params, hostErr)
               [] Is("listCollections") -> listCollections(params, hostErr)
               [] OTHER ->
                    Throw(rpcError("METHOD_NOT_FOUND", <<"Unknown method: ", method>>, 500), FALSE)

handleRpcRequest(body, hostErr) ==
    IF ~Destructurable(body) THEN Throw(HostError(<<"TypeError: cannot destructure">>), FALSE)
    ELSE
    LET method == Field(body, "method")
        params == IF Field(body, "params").t = "undefined"
                  THEN EmptyObject ELSE Field(body, "params")
        Is(name) == method.t = "string" /\ method.v = <<name>>
    IN  IF ~Truthy(method)
        THEN Throw(rpcError("INVALID_REQUEST", <<"Method is required">>, 400), FALSE)
        ELSE CASE Is("createCollection") -> createCollection(params, hostErr)
               [] Is("getCollection") -> getCollection(params, hostErr)
               [] Is("addToCollection") -> addToCollection(params, hostErr)
               [] Is("removeFromCollection") -> removeFromCollection(params, hostErr)
               [] Is("searchItems") -> searchItems(params, hostErr)
               [] Is("getItem") -> getItem(params, hostErr)
               [] Is("listCollections") -> listCollections(params, hostErr)
               [] OTHER ->
                    Throw(rpcError("METHOD_NOT_FOUND", <<"Unknown method: ", method>>, 404), FALSE)

\* What an endpoint's init leaves behind: its response and the library
Answer(response, out) ==
    [response |-> response, items |-> out.items, collections |-> out.collections,
     members |-> out.members, searched |-> out.searched]

Untouched == Return(<<>>, collections, members, FALSE)

\* The try block of the RPC endpoint's init: parse the body, run the command
tryRpc(parsed, hostErr) ==
    IF parsed.thrown THEN parsed ELSE handleRpcRequest(parsed.value, hostErr)

\* The end of init, but without the defaults for an error that carries no
\* status and no code
respondRpc_nodefaults(out) ==
    IF out.thrown
    THEN Answer(jsonResponse(out.value.status,
                             [error |-> out.value.code, message |-> out.value.message]),
                out)
    ELSE Answer(jsonResponse(200, out.value), out)

\* The end of init: the result as a 200 response, or the catch block's
\* error response for what the try block threw
respondRpc(out) ==
    IF out.thrown
    THEN Answer(jsonResponse(IF out.value.status # 0 THEN out.value.status ELSE 500,
                             [error |-> IF out.value.code # "" THEN out.value.code
                                        ELSE "INTERNAL_ERROR",
                              message |-> out.value.message]),
                out)
    ELSE Answer(jsonResponse(200, out.value), out)

\* init of /zotero-mcp/rpc
rpcInit(requestData) ==
    IF requestData.method = "OPTIONS"
    THEN Answer(corsResponse(204, ""), Untouched)
    ELSE respondRpc(tryRpc(parseRequestBody(requestData), requestData.hostErr))

\* init of /zotero-mcp/health
healthInit(requestData) ==
    IF requestData.method = "OPTIONS"
    THEN Answer(corsResponse(204, ""), Untouched)
    ELSE Answer(jsonResponse(200, [status |-> "ok", version |-> "1.0.0"]), Untouched)

-----------------------------------------------------------------------------
(* Requests the clients send *)

Request(method, path, data, hostErr) ==
    [method |-> method, path |-> path, data |-> data, hostErr |-> hostErr]

Rpc(name, params, hostErr) ==
    Request("POST", RpcPath,
            Json(Obj([method |-> Str(<<name>>), params |-> Obj(params)])), hostErr)

NoRequest == Request("", "", NoData, {})
NoResponse == [status |-> 0, contentType |-> "", body |-> "", headers |-> CorsHeaders]

MissingCollectionKey == Str(<<"CX">>)
MissingItemKey == Str(<<"IX">>)

KnownCollectionKeys == {Str(<<collections[c].key>>) : c \in CollectionIDs}
CollectionKeyChoices == {Undefined, MissingCollectionKey} \cup KnownCollectionKeys
ItemKeyChoices == {MissingItemKey} \cup {Str(<<items[i].key>>) : i \in ItemIDs}
ItemKeyArrays == UNION {[1 .. n -> ItemKeyChoices] : n \in 1 .. MaxKeys}
MaybeFails == {{}, {1}}

CreateCollectionRequests ==
    {Rpc("createCollection", [name |-> n, parentKey |-> p], h) :
        n \in {Undefined, Str(<<>>), Num(1), Str(<<"n">>)},
        p \in CollectionKeyChoices, h \in MaybeFails}

GetCollectionRequests ==
    {Rpc("getCollection", [key |-> k], h) : k \in CollectionKeyChoices, h \in MaybeFails}

ListCollectionsRequests ==
    {Rpc("listCollections", [parentKey |-> k], h) :
        k \in CollectionKeyChoices, h \in MaybeFails}

GetItemRequests ==
    {Rpc("getItem", [key |-> k], h) :
        k \in {Undefined} \cup ItemKeyChoices, h \in MaybeFails}

\* addToCollection and removeFromCollection take the same parameters
MemberRequests(name) ==
    UNION {{Rpc(name, [collectionKey |-> ck, itemKeys |-> Arr(a)], h) :
                ck \in KnownCollectionKeys, h \in SUBSET (1 .. Len(a))} :
           a \in ItemKeyArrays}
    \cup {Rpc(name, [collectionKey |-> ck, itemKeys |-> ik], {}) :
            ck \in KnownCollectionKeys,
            ik \in {Undefined, MissingItemKey, Arr(<<>>)}}
    \cup {Rpc(name, [collectionKey |-> ck, itemKeys |-> ik], {}) :
            ck \in {Undefined, MissingCollectionKey},
            ik \in {Undefined, Arr(<<>>), Arr(<<MissingItemKey>>)}}

Queries == {<<>>, <<" ">>, <<"a">>, <<"b">>, <<" ", "a">>, <<"a", " ", "b">>}
Limits == {Undefined, Num(-1), Num(0), Num(1), Num(2)}

SearchItemsRequests ==
    {Rpc("searchItems", [query |-> q, limit |-> l], h) :
        q \in {Undefined, Num(1)} \cup {Str(x) : x \in Queries},
        l \in Limits, h \in MaybeFails}

UnknownMethodRequests ==
    {Request("POST", RpcPath, Json(Obj([method |-> m, params |-> p])), {}) :
        m \in {Str(<<"invalidMethod">>), Str(<<"searchitems">>), Num(1)},
        p \in {Undefined, Null, Obj([key |-> MissingItemKey])}}

MalformedRequests ==
    {Request("POST", RpcPath, d, {}) :
        d \in {NoData, NotJson, Json(Null), Json(Num(1)), Json(EmptyObject),
               Json(Obj([method |-> Str(<<>>), params |-> Undefined]))}}
    \cup {Request("POST", RpcPath, Json(Obj([method |-> Str(<<m>>), params |-> Null])), {}) :
            m \in {"createCollection", "getCollection", "addToCollection",
                   "removeFromCollection", "searchItems", "getItem", "listCollections"}}

PreflightRequests ==
    {Request("OPTIONS", RpcPath, d, {}) :
        d \in {NoData, Json(Obj([method |-> Str(<<"invalidMethod">>), params |-> Undefined]))}}

HealthRequests == {Request(m, HealthPath, NoData, {}) : m \in {"GET", "OPTIONS"}}

-----------------------------------------------------------------------------
(* The citation-key resolver of the search server.  The "extra" field of an  *)
(* item is the sequence of its lines, each a label up to and including the   *)
(* colon and the token that follows it (empty if none follows).              *)

\* The "absent" sentinel of the cache, returned as null
Absent == "absent"

NoResolution == [item |-> "", key |-> Absent, fromCache |-> FALSE]

\* The labels that introduce a citation key, in lower case
KeyPrefixes == {"citation key:", "bibtex:"}

\* The labels that occur in the modelled extra fields
Labels == {"Citation Key:", "citation key:", "BibTeX:", "bibtex:", "tldr:"}

\* Lower-casing of a label
Lower(label) ==
    CASE label = "Citation Key:" -> "citation key:"
      [] label = "BibTeX:" -> "bibtex:"
      [] OTHER -> label

\* Step 2: the token of the first line of the extra field whose label matches
\* a key prefix case-insensitively and that is followed by a token
parseExtra(text) ==
    LET hits == {k \in 1 .. Len(text) :
                    Lower(text[k].label) \in KeyPrefixes /\ text[k].token # ""}
    IN  IF hits = {} THEN Absent
        ELSE text[CHOOSE k \in hits : \A j \in hits : k <= j].token

\* Step 3: lookupKey of the secondary store; no store configured, an
\* unreachable store and an unknown item all give Absent
lookupKey(itemKey, storeFails) ==
    IF ~secondaryStore.configured \/ storeFails THEN Absent
    ELSE secondaryStore.keys[itemKey]

\* The resolver, but asking the secondary store before the extra field
resolveCitationKey_storefirst(itemKey, storeFails) ==
    IF itemKey \in DOMAIN citationKeyCache
    THEN [key |-> citationKeyCache[itemKey], cache |-> citationKeyCache,
          fromCache |-> TRUE]
    ELSE
    LET found == IF lookupKey(itemKey, storeFails) # Absent
                 THEN lookupKey(itemKey, storeFails)
                 ELSE parseExtra(extra[itemKey])
    IN  [key |-> found, cache |-> (itemKey :> found) @@ citationKeyCache,
         fromCache |-> FALSE]

\* Steps 1 to 4: the cached result if there is one; else the key of the extra
\* field, else the key of the secondary store, else Absent, cached
resolveCitationKey(itemKey, storeFails) ==
    IF itemKey \in DOMAIN citationKeyCache
    THEN [key |-> citationKeyCache[itemKey], cache |-> citationKeyCache,
          fromCache |-> TRUE]
    ELSE
    LET found == IF parseExtra(extra[itemKey]) # Absent
                 THEN parseExtra(extra[itemKey])
                 ELSE lookupKey(itemKey, storeFails)
    IN  [key |-> found, cache |-> (itemKey :> found) @@ citationKeyCache,
         fromCache |-> FALSE]

\* The items whose keys are resolved
ResolverItems == {"I1", "I2"}

Line(label, token) == [label |-> label, token |-> token]

\* Extra fields: empty, one key line in either spelling, a key line after an
\* unrelated line, two key lines, a key label with no token, a key token
\* under an unrelated label
ExtraTexts ==
    {<<>>,
     <<Line("Citation Key:", "ABC123")>>,
     <<Line("BibTeX:", "DEF456")>>,
     <<Line("tldr:", "DEF456"), Line("citation key:", "ABC123")>>,
     <<Line("bibtex:", "DEF456"), Line("Citation Key:", "ABC123")>>,
     <<Line("Citation Key:", "")>>,
     <<Line("tldr:", "ABC123")>>}

NoStore == [configured |-> FALSE, keys |-> <<>>]

\* No secondary store, or one that knows a key for some of the items
SecondaryStores ==
    {NoStore} \cup
    {[configured |-> TRUE, keys |-> f] : f \in [ResolverItems -> {Absent, "XYZ999"}]}

-----------------------------------------------------------------------------
(* Libraries the plugin may be started on *)

Titles == {<<"a">>, <<"b">>, <<"a", "b">>}
Dates == {1, 2}

ItemKeyOf(i) == "I" \o ToString(i)

\* Libraries whose items differ in type only
TypedLibraries ==
    UNION {{[i \in 1 .. n |->
                [key |-> ItemKeyOf(i), itemType |-> ty[i], title |-> <<"a">>, dateAdded |-> i]] :
            ty \in [1 .. n -> ItemTypes]} : n \in 0 .. MaxItems}

\* Libraries whose items differ in type, searchable text and date added
SearchLibraries ==
    UNION {{[i \in 1 .. n |->
                [key |-> ItemKeyOf(i), itemType |-> ty[i], title |-> ti[i], dateAdded |-> da[i]]] :
            ty \in [1 .. n -> ItemTypes], ti \in [1 .. n -> Titles], da \in [1 .. n -> Dates]} :
           n \in 0 .. MaxItems}

-----------------------------------------------------------------------------
(* Actions *)

\* constructor
InitCommon ==
    /\ endpoints = {}
    /\ collections = <<>>
    /\ members = <<>>
    /\ pc = "idle"
    /\ lastReq = NoRequest
    /\ resp = NoResponse
    /\ searched = FALSE

\* The plugin resolves no citation keys
ResolverUnused ==
    /\ extra = <<>>
    /\ secondaryStore = NoStore
    /\ citationKeyCache = <<>>
    /\ resolved = NoResolution

Init == InitCommon /\ items \in TypedLibraries /\ ResolverUnused

InitSearch == InitCommon /\ items \in SearchLibraries /\ ResolverUnused

\* The resolver's process starts with an empty cache, over immutable items
\* and an immutable secondary store
InitResolver ==
    /\ InitCommon
    /\ items = <<>>
    /\ extra \in [ResolverItems -> ExtraTexts]
    /\ secondaryStore \in SecondaryStores
    /\ citationKeyCache = <<>>
    /\ resolved = NoResolution

\* One resolution of an item's citation key; the secondary store may be
\* unreachable during it
ResolveCitationKey ==
    /\ \E itemKey \in ResolverItems, storeFails \in BOOLEAN :
          \E out \in {resolveCitationKey(itemKey, storeFails)} :
             /\ citationKeyCache' = out.cache
             /\ resolved' = [item |-> itemKey, key |-> out.key,
                             fromCache |-> out.fromCache]
    /\ UNCHANGED <<extra, secondaryStore>>
    /\ UNCHANGED pluginVars

\* startup: registerEndpoints
Startup ==
    /\ endpoints = {}
    /\ pc = "idle"
    /\ endpoints' = {RpcPath, HealthPath}
    /\ UNCHANGED <<items, collections, members, pc, lastReq, resp, searched>>
    /\ UNCHANGED resolverVars

\* shutdown: unregisterEndpoints
Shutdown ==
    /\ endpoints # {}
    /\ pc = "idle"
    /\ endpoints' = {}
    /\ UNCHANGED <<items, collections, members, pc, lastReq, resp, searched>>
    /\ UNCHANGED resolverVars

\* The host server dispatches a request to the endpoint registered for its
\* path and keeps what init returns
Serve(requestData) ==
    /\ pc = "idle"
    /\ requestData.path \in endpoints
    /\ \E answer \in {IF requestData.path = RpcPath
                      THEN rpcInit(requestData) ELSE healthInit(requestData)} :
           /\ resp' = answer.response
           /\ items' = answer.items
           /\ collections' = answer.collections
           /\ members' = answer.members
           /\ searched' = answer.searched
    /\ lastReq' = requestData
    /\ pc' = "responded"
    /\ UNCHANGED endpoints
    /\ UNCHANGED resolverVars

CreateCollection ==
    /\ Len(collections) < MaxCollections
    /\ \E r \in CreateCollectionRequests : Serve(r)

GetCollection == \E r \in GetCollectionRequests : Serve(r)

AddToCollection == \E r \in MemberRequests("addToCollection") : Serve(r)

RemoveFromCollection == \E r \in MemberRequests("removeFromCollection") : Serve(r)

ListCollections == \E r \in ListCollectionsRequests : Serve(r)

SearchItems == \E r \in SearchItemsRequests : Serve(r)

GetItem == \E r \in GetItemRequests : Serve(r)

UnknownMethod == \E r \in UnknownMethodRequests : Serve(r)

Malformed == \E r \in MalformedRequests : Serve(r)

Preflight == \E r \in PreflightRequests : Serve(r)

Health == \E r \in HealthRequests : Serve(r)

\* The host server sends the response; the endpoint is ready for the next request
Deliver ==
    /\ pc = "responded"
    /\ pc' = "idle"
    /\ lastReq' = NoRequest
    /\ resp' = NoResponse
    /\ searched' = FALSE
    /\ UNCHANGED <<endpoints, items, collections, members>>
    /\ UNCHANGED resolverVars

Next ==
    \/ Startup
    \/ Shutdown
    \/ CreateCollection
    \/ GetCollection
    \/ AddToCollection
    \/ RemoveFromCollection
    \/ ListCollections
    \/ SearchItems
    \/ GetItem
    \/ UnknownMethod
    \/ Malformed
    \/ Preflight
    \/ Health
    \/ Deliver

Spec == Init /\ [][Next]_vars

NextSearch ==
    \/ Startup
    \/ SearchItems
    \/ GetItem
    \/ Deliver

SpecSearch == InitSearch /\ [][NextSearch]_vars

NextResolver == ResolveCitationKey

SpecResolver == InitResolver /\ [][NextResolver]_vars

-----------------------------------------------------------------------------
(* Vocabulary of the properties *)

RpcMethods ==
    {"createCollection", "getCollection", "addToCollection", "removeFromCollection",
     "searchItems", "getItem", "listCollections"}

ReadMethods == {"searchItems", "getItem", "getCollection", "listCollections"}

\* r is a POST to the RPC endpoint whose body is a JSON object
IsRpcObject(r) ==
    /\ r.method = "POST"
    /\ r.path = RpcPath
    /\ r.data.t = "json"
    /\ r.data.v.t = "object"

\* r calls the RPC method called name
Calls(r, name) ==
    /\ IsRpcObject(r)
    /\ Field(r.data.v, "method").t = "string"
    /\ Field(r.data.v, "method").v = <<name>>

\* The parameter called name of the RPC request r
Param(r, name) == Field(Field(r.data.v, "params"), name)

Min(a, b) == IF a < b THEN a ELSE b

\* The query text of r holds at least one character that is not a space
HasText(r) ==
    /\ Param(r, "query").t = "string"
    /\ \E k \in 1 .. Len(Param(r, "query").v) : Param(r, "query").v[k] # " "

\* The regular items of the library that match the query of r
MatchingItems(r) ==
    {i \in ItemIDs : isRegularItem(items[i]) /\ QuickSearchMatches(items[i], Param(r, "query").v)}

\* A search with a usable query that met no host failure has been answered
SearchAnswered ==
    /\ pc = "responded"
    /\ Calls(lastReq, "searchItems")
    /\ HasText(lastReq)
    /\ lastReq.hostErr = {}

-----------------------------------------------------------------------------
(* Properties of searchItems, checked under SpecSearch *)

\* C1: for a valid query and a positive limit, total is the number of all
\* matching items, counted before truncation, and the number of returned
\* items is min(total, limit).
C1_TotalCountsAllMatches ==
    (SearchAnswered /\ Param(lastReq, "limit").t = "number" /\ Param(lastReq, "limit").v > 0)
    => /\ resp.status = 200
       /\ resp.body.total = Cardinality(MatchingItems(lastReq))
       /\ Len(resp.body.items) = Min(resp.body.total, Param(lastReq, "limit").v)

\* C2: a query that is empty or only whitespace is rejected with an error
\* before any search is run, and the caller receives neither items nor total.
C2_BlankQueryRejected ==
    (/\ pc = "responded"
     /\ Calls(lastReq, "searchItems")
     /\ Param(lastReq, "query").t = "string"
     /\ ~HasText(lastReq))
    => /\ resp.status # 200
       /\ ~searched
       /\ "items" \notin DOMAIN resp.body
       /\ "total" \notin DOMAIN resp.body

\* C3: a limit that is zero or negative is clamped to 1 (one item is returned
\* whenever there is a match, and never more), and an absent limit is 50.
C3_LimitClampedAndDefaulted ==
    SearchAnswered
    => /\ (Param(lastReq, "limit").t = "number" /\ Param(lastReq, "limit").v <= 0)
            => (resp.status = 200
                /\ Len(resp.body.items) = Min(Cardinality(MatchingItems(lastReq)), 1))
       /\ Param(lastReq, "limit").t = "undefined"
            => (resp.status = 200
                /\ Len(resp.body.items) = Min(Cardinality(MatchingItems(lastReq)), 50))

\* The item keys of this model ascend with the item ids
KeyBefore(k1, k2) == ItemByKey(Str(<<k1>>)) < ItemByKey(Str(<<k2>>))

\* C7: the items of a search result are ordered by score descending, ties
\* broken by dateAdded descending and then by key ascending.  Two items with
\* the same searchable text have the same score for every query, so of two
\* such items the one added later comes first, and of two added at the same
\* time the one with the smaller key.
C7_ResultOrdered ==
    (SearchAnswered /\ resp.status = 200)
    => \A k, l \in 1 .. Len(resp.body.items) :
          (k < l /\ resp.body.items[k].title = resp.body.items[l].title)
          => \/ resp.body.items[k].dateAdded > resp.body.items[l].dateAdded
             \/ /\ resp.body.items[k].dateAdded = resp.body.items[l].dateAdded
                /\ KeyBefore(resp.body.items[k].key, resp.body.items[l].key)

\* C8: every item returned by a search carries a score greater than 0 and a
\* non-empty set of matched fields.
C8_ReturnedItemsScored ==
    (SearchAnswered /\ resp.status = 200)
    => \A k \in 1 .. Len(resp.body.items) :
          /\ "score" \in DOMAIN resp.body.items[k]
          /\ resp.body.items[k].score > 0
          /\ "matchedFields" \in DOMAIN resp.body.items[k]
          /\ resp.body.items[k].matchedFields # {}

\* C9: in every search result the reported total is greater than or equal to
\* the number of items returned.
C9_TotalAtLeastItems ==
    (pc = "responded" /\ Calls(lastReq, "searchItems") /\ resp.status = 200)
    => resp.body.total >= Len(resp.body.items)

\* A search whose matches outnumber the limit has been answered with items
C9_Witness ==
    /\ SearchAnswered
    /\ resp.status = 200
    /\ Param(lastReq, "limit").t = "number"
    /\ Param(lastReq, "limit").v >= 1
    /\ Len(QuickSearch(Param(lastReq, "query").v)) > Param(lastReq, "limit").v
    /\ Len(resp.body.items) >= 1

-----------------------------------------------------------------------------
(* Properties of the RPC endpoint, checked under Spec *)

\* r is a read: a read command of the RPC endpoint or a health check
IsRead(r) ==
    \/ r.path = HealthPath
    \/ \E m \in ReadMethods : Calls(r, m)

LibraryUnchanged ==
    /\ items' = items
    /\ collections' = collections
    /\ members' = members

\* C4: searchItems, getItem, getCollection, listCollections and the health
\* endpoint, whether they succeed or fail, leave the items, the collections
\* and every collection's membership unchanged.
C4_ReadsNeverWrite ==
    [][(pc' = "responded" /\ IsRead(lastReq')) => LibraryUnchanged]_vars

\* getCollection has succeeded on a collection that has items
C4_Witness ==
    /\ pc = "responded"
    /\ Calls(lastReq, "getCollection")
    /\ resp.status = 200
    /\ resp.body.itemCount >= 1

\* Every item removeFromCollection reports as removed is no longer in the
\* collection, is still in the library and is still returned by getItem
RemovedItemsRemain ==
    (pc = "responded" /\ Calls(lastReq, "removeFromCollection") /\ resp.status = 200)
    => \A k \in 1 .. Len(resp.body.removed.v) :
          LET key == resp.body.removed.v[k]
              out == getItem(Obj([key |-> key]), {})
          IN  /\ ItemByKey(key) \in ItemIDs
              /\ ItemByKey(key) \notin
                    members[CollectionByKey(Param(lastReq, "collectionKey"))]
              /\ ~out.thrown
              /\ <<out.value.key>> = key.v

\* C5: no request creates or deletes an item; removeFromCollection only ends
\* collection membership, and every item it removes is still in the library
\* and still returned by getItem.
C5_ItemsNeverChange ==
    [][items' = items /\ RemovedItemsRemain']_vars

\* An item has been removed from one collection and is still in another
C5_Witness ==
    /\ pc = "responded"
    /\ Calls(lastReq, "removeFromCollection")
    /\ resp.status = 200
    /\ \E k \in 1 .. Len(resp.body.removed.v) :
          getItem(Obj([key |-> resp.body.removed.v[k]]), {}).value.collections # <<>>

\* r names a method that is a non-empty string and none of the seven commands
NamesUnknownMethod(r) ==
    /\ IsRpcObject(r)
    /\ Field(r.data.v, "method").t = "string"
    /\ Field(r.data.v, "method").v # <<>>
    /\ \A m \in RpcMethods : Field(r.data.v, "method").v # <<m>>

\* C6: a request whose method is a non-empty name other than the seven
\* commands is answered 404 METHOD_NOT_FOUND, and no command is executed:
\* the library is unchanged and no search is run.
C6_UnknownMethodRejected ==
    [][(pc' = "responded" /\ NamesUnknownMethod(lastReq'))
       => (/\ resp'.status = 404
           /\ resp'.body.error = "METHOD_NOT_FOUND"
           /\ ~searched'
           /\ LibraryUnchanged)]_vars

\* An unknown method has been answered on a library that has a collection
C6_Witness ==
    /\ pc = "responded"
    /\ NamesUnknownMethod(lastReq)
    /\ collections # <<>>

\* r fails with an error that is not one of the plugin's coded errors: its
\* body or the parameters of a command are null, or the host throws while a
\* valid search or a valid createCollection is carried out
FailsUncoded(r) ==
    /\ r.method = "POST"
    /\ r.path = RpcPath
    /\ r.data.t = "json"
    /\ \/ r.data.v.t = "null"
       \/ \E m \in RpcMethods : Calls(r, m) /\ Field(r.data.v, "params").t = "null"
       \/ Calls(r, "searchItems") /\ HasText(r) /\ r.hostErr # {}
       \/ /\ Calls(r, "createCollection")
          /\ Param(r, "name").t = "string"
          /\ Param(r, "name").v # <<>>
          /\ Param(r, "parentKey").t = "undefined"
          /\ r.hostErr # {}

\* C10: the handler of the RPC endpoint returns a response for every request:
\* status 200 with the command's result, or an error status with a JSON body
\* {error, message} (a preflight is answered 204); a failure that is not a
\* coded error is reported as 500 INTERNAL_ERROR, and the endpoint stays
\* registered after a failed request.
C10_NoFailureEscapes ==
    (pc = "responded" /\ lastReq.path = RpcPath)
    => /\ RpcPath \in endpoints
       /\ \/ lastReq.method = "OPTIONS" /\ resp.status = 204
          \/ /\ lastReq.method = "POST"
             /\ resp.contentType = "application/json"
             /\ \/ resp.status = 200 /\ "error" \notin DOMAIN resp.body
                \/ /\ resp.status \in {400, 404, 500}
                   /\ DOMAIN resp.body = {"error", "message"}
                   /\ resp.body.error # ""
                   /\ (resp.status = 500 <=> resp.body.error = "INTERNAL_ERROR")
             /\ FailsUncoded(lastReq)
                  => (resp.status = 500 /\ resp.body.error = "INTERNAL_ERROR")

\* A request that failed with an uncoded error has been answered
C10_Witness ==
    /\ pc = "responded"
    /\ FailsUncoded(lastReq)
    /\ lastReq.hostErr # {}
    /\ resp.status = 500

-----------------------------------------------------------------------------
(* Properties of the collection commands, checked under Spec *)

\* What a getCollection outcome tells about the collection
ViewOf(out) ==
    IF out.thrown
    THEN [found |-> FALSE, key |-> "", name |-> <<>>, parentKey |-> Null]
    ELSE [found |-> TRUE, key |-> out.value.key, name |-> out.value.name,
          parentKey |-> out.value.parentKey]

\* What getCollection(key) returns on the current library
CollectionView(key) == ViewOf(getCollection(Obj([key |-> key]), {}))

\* getCollection of the key a successful createCollection has just returned
\* gives the same key, name and parentKey
CreatedRoundTrip ==
    (pc = "responded" /\ Calls(lastReq, "createCollection") /\ resp.status = 200)
    => CollectionView(Str(<<resp.body.key>>)) =
          [found |-> TRUE, key |-> resp.body.key, name |-> resp.body.name,
           parentKey |-> resp.body.parentKey]

\* C11: after createCollection succeeds with key k, getCollection(k) succeeds
\* and returns the same key, name and parentKey (null when none was given),
\* and every later command leaves what getCollection returns for an existing
\* collection's key, name and parentKey as it was.
C11_CreateGetRoundTrip ==
    [][/\ CreatedRoundTrip'
       /\ \A k \in KnownCollectionKeys :
             /\ CollectionView(k).found
             /\ CollectionView(k)' = CollectionView(k)]_vars

\* A collection has been created under a parent collection
C11_Witness ==
    /\ pc = "responded"
    /\ Calls(lastReq, "createCollection")
    /\ resp.status = 200
    /\ resp.body.parentKey.t = "string"
    /\ CollectionView(Str(<<resp.body.key>>)).parentKey = resp.body.parentKey

\* C13: an RPC request answered with a status other than 200 leaves the set
\* of collections and every collection's membership as they were; in
\* particular createCollection with an unknown parentKey creates nothing.
C13_ErrorLeavesStateUnchanged ==
    [][(pc' = "responded" /\ lastReq'.path = RpcPath /\ resp'.status # 200)
         => (collections' = collections /\ members' = members)]_vars

\* createCollection with a name and an unknown parentKey has been answered
\* 404 on a library that holds a collection with a member
C13_Witness ==
    /\ pc = "responded"
    /\ Calls(lastReq, "createCollection")
    /\ Truthy(Param(lastReq, "name"))
    /\ Param(lastReq, "parentKey") = MissingCollectionKey
    /\ resp.status = 404
    /\ \E c \in CollectionIDs : members[c] # {}

\* The elements of seq at the positions in S, in the order of seq
Pick(seq, S) ==
    LET idx == AscendingSeq(S)
    IN  [j \in 1 .. Len(idx) |-> seq[idx[j]]]

\* r is addToCollection for an existing collection and a non-empty array
AddsToExisting(r) ==
    /\ Calls(r, "addToCollection")
    /\ Param(r, "collectionKey") \in KnownCollectionKeys
    /\ Param(r, "itemKeys").t = "array"
    /\ Len(Param(r, "itemKeys").v) > 0

\* The positions of r's itemKeys whose item exists, is neither a note nor an
\* attachment, and whose addItem call did not fail
Addable(r) ==
    {k \in 1 .. Len(Param(r, "itemKeys").v) :
        /\ ItemByKey(Param(r, "itemKeys").v[k]) # 0
        /\ isRegularItem(items[ItemByKey(Param(r, "itemKeys").v[k])])
        /\ k \notin r.hostErr}

\* The keys of the errors array of a response body; the array is left out of
\* the body when it is empty
ErrorKeys(body) ==
    IF "errors" \in DOMAIN body
    THEN [j \in 1 .. Len(body.errors.v) |-> body.errors.v[j].key]
    ELSE <<>>

\* C14: addToCollection on an existing collection with a non-empty itemKeys
\* array answers 200; `added` holds, in input order, exactly the keys at the
\* positions whose item exists, is no note or attachment and was added without
\* failure; `errors` holds, in input order, the keys at all other positions;
\* and every added key's item is a member of the collection afterwards.
C14_AddProcessesEveryKey ==
    (pc = "responded" /\ AddsToExisting(lastReq)) =>
        /\ resp.status = 200
        /\ resp.body.added.t = "array"
        /\ resp.body.added.v = Pick(Param(lastReq, "itemKeys").v, Addable(lastReq))
        /\ ErrorKeys(resp.body) =
              Pick(Param(lastReq, "itemKeys").v,
                   (1 .. Len(Param(lastReq, "itemKeys").v)) \ Addable(lastReq))
        /\ \A k \in Addable(lastReq) :
              ItemByKey(Param(lastReq, "itemKeys").v[k])
                 \in members[CollectionByKey(Param(lastReq, "collectionKey"))]

\* Adding the first of two keys failed in the host, and the second was added
C14_Witness ==
    /\ pc = "responded"
    /\ AddsToExisting(lastReq)
    /\ Len(Param(lastReq, "itemKeys").v) = 2
    /\ 1 \in lastReq.hostErr
    /\ ItemByKey(Param(lastReq, "itemKeys").v[1]) # 0
    /\ isRegularItem(items[ItemByKey(Param(lastReq, "itemKeys").v[1])])
    /\ Addable(lastReq) = {2}
    /\ ErrorKeys(resp.body) = <<Param(lastReq, "itemKeys").v[1]>>
    /\ resp.body.added.v = <<Param(lastReq, "itemKeys").v[2]>>

-----------------------------------------------------------------------------
(* Properties of the citation-key resolver, checked under SpecResolver *)

\* The extra field of the item holds a line that gives a citation key
ExtraGivesKey(itemKey) ==
    \E k \in 1 .. Len(extra[itemKey]) :
        /\ Lower(extra[itemKey][k].label) \in KeyPrefixes
        /\ extra[itemKey][k].token # ""

\* The secondary store maps the item to a key that is not the one of the
\* item's extra field
StoreGivesOtherKey(itemKey) ==
    /\ secondaryStore.configured
    /\ secondaryStore.keys[itemKey] # Absent
    /\ secondaryStore.keys[itemKey] # parseExtra(extra[itemKey])

\* C12: when an item's extra field contains a citation key and the secondary
\* store maps the item to a different key, every resolution of the item, the
\* first one and the later ones answered from the cache, returns the key of
\* the extra field.
C12_ExtraKeyHasPriority ==
    (/\ resolved # NoResolution
     /\ ExtraGivesKey(resolved.item)
     /\ StoreGivesOtherKey(resolved.item))
    => /\ resolved.key = parseExtra(extra[resolved.item])
       /\ resolved.key \in {"ABC123", "DEF456"}
       /\ citationKeyCache[resolved.item] = resolved.key

\* An item with a key in its extra field and another key in the secondary
\* store has been resolved from the cache
C12_Witness ==
    /\ resolved # NoResolution
    /\ resolved.fromCache
    /\ ExtraGivesKey(resolved.item)
    /\ StoreGivesOtherKey(resolved.item)
    /\ resolved.key = "ABC123"
    /\ secondaryStore.keys[resolved.item] = "XYZ999"

====
